---- MODULE Spec2Model ----
(***************************************************************************)
(* Model of the multitap delay line of src/src/lib.rs: a Multitap<T, N>    *)
(* owning an array of N elements, WriteHead and ReadHead cursors that      *)
(* borrow it, and the modular index arithmetic of their operations.        *)
(***************************************************************************)
EXTENDS Integers, Naturals, Sequences, FiniteSets, TLC

\* ------------------------------------------------------------------ bounds
\* Largest capacity N the model instantiates Multitap<T, N> with.
MaxN == 3
\* Elements are the integers 0..MaxValue; 0 is Num::default_value().
MaxValue == 1
\* WriteHead and ReadHead values the caller may hold at the same time.
MaxWriters == 2
MaxReaders == 2
\* Width of usize in the model; arithmetic on usize wraps at 2^UsizeBits.
UsizeBits == 5
\* Pushes of the lock-step scenario.
MaxTicks == 6

VARIABLES
    N,        \* const generic N of Multitap<T, N>
    data,     \* Multitap::data, the array [T; N], indexed 0..N-1
    wh,       \* outstanding WriteHeads: handle -> head_position
    rh,       \* outstanding ReadHeads: handle -> head_position
    op,       \* the operation called last
    arg,      \* its arguments
    ret,      \* what it returned (or that it panicked)
    pc,       \* lock-step scenario: whose turn it is ("free": no schedule)
    delay,    \* lock-step scenario: the delay the reader was created with
    pushed,   \* lock-step scenario: the values pushed so far
    pulled,   \* lock-step scenario: the values next() returned so far
    fill,     \* fill scenario: the contents the Multitap was constructed with
    touched   \* fill scenario: the slots a push or indexed write stored into

vars == <<N, data, wh, rh, op, arg, ret, pc, delay, pushed, pulled, fill, touched>>
ledger == <<fill, touched>>
scenario == <<pc, delay, pushed, pulled, fill, touched>>

Values == 0..MaxValue
Writers == 1..MaxWriters
Readers == 1..MaxReaders
Capacities == 1..MaxN

UsizeModulus == 2 ^ UsizeBits
UsizeMax == UsizeModulus - 1
\* usize arguments the caller passes: below, at, just above and at a multiple
\* of the capacity, and the largest usize.
UsizeArgs == (0..(N + 1)) \cup {2 * N, UsizeMax}

default_value == 0

\* ------------------------------------------------------- usize arithmetic
\* `a - b` on usize: panics with overflow checks on (debug build), wraps with
\* them off (release build).
usize_sub(a, b) ==
    IF a >= b
    THEN {[panic |-> FALSE, value |-> a - b]}
    ELSE {[panic |-> TRUE, value |-> 0],
          [panic |-> FALSE, value |-> (a - b) + UsizeModulus]}

\* `a + b` on usize, likewise.
usize_add(a, b) ==
    IF a + b <= UsizeMax
    THEN {[panic |-> FALSE, value |-> a + b]}
    ELSE {[panic |-> TRUE, value |-> 0],
          [panic |-> FALSE, value |-> (a + b) - UsizeModulus]}

\* Bounds-checked array indexing `array[i]`: panics unless i < N.
in_bounds(array, i) == i \in DOMAIN array

\* ------------------------------------------------------------ return values
Unit == [kind |-> "unit", slot |-> 0, value |-> 0]
Panic == [kind |-> "panic", slot |-> 0, value |-> 0]
Handle(kind, position) == [kind |-> kind, slot |-> position, value |-> 0]
Sample(v) == [kind |-> "Some", slot |-> 0, value |-> v]
Ref(array, i) == [kind |-> "ref", slot |-> i, value |-> array[i]]
Args(h, n, element) == [head |-> h, n |-> n, element |-> element]

Running == ret.kind # "panic"

\* ----------------------------------------------------------------- Multitap
\* Multitap::new: [T::default_value(); N]
new(n) == [i \in 0..(n - 1) |-> default_value]

\* Multitap::from_buffer / From<[T; N]>: the caller's array, moved in.
from_buffer(array) == array

\* Multitap::from_slice: data.try_into().expect("Wrong size"), a panic unless
\* the slice holds exactly N elements.
from_slice(slice) ==
    IF Cardinality(DOMAIN slice) = N
    THEN [panic |-> FALSE, data |-> slice]
    ELSE [panic |-> TRUE, data |-> << >>]

\* Multitap::as_writehead: WriteHead { buffer: self, head_position: 0 }
as_writehead == [head_position |-> 0]

\* as_readhead counting the delay forwards from index 0: head_position % N
as_readhead_forward(head_position) ==
    {[panic |-> FALSE, head_position |-> head_position % N]}

\* as_readhead without the final reduction: N - head_position
as_readhead_unreduced(head_position) ==
    {IF d.panic THEN [panic |-> TRUE, head_position |-> 0]
                ELSE [panic |-> FALSE, head_position |-> d.value]
        : d \in usize_sub(N, head_position)}

\* Multitap::as_readhead: head_position: (N - head_position) % N
as_readhead(head_position) ==
    {IF d.panic THEN [panic |-> TRUE, head_position |-> 0]
                ELSE [panic |-> FALSE, head_position |-> d.value % N]
        : d \in usize_sub(N, head_position)}

\* A drop that leaves the cursor registered as outstanding.
drop_head_leak(heads, h) == heads

\* A cursor going out of scope: neither cursor type implements Drop, so the
\* borrow ends and nothing else changes.
drop_head(heads, h) == [x \in (DOMAIN heads) \ {h} |-> heads[x]]

\* ----------------------------------------------------------------- ReadHead
\* seek clamping instead of wrapping, as the seek left commented out in
\* WriteHead does: if position > N { 0 } else { position }
seek_clamp(position) == IF position > N THEN 0 ELSE position

\* ReadHead::seek
seek(position) == position % N

\* ReadHead::next, the element read: as_mut()[self.head_position]
next_sample(head_position) ==
    IF in_bounds(data, head_position) THEN Sample(data[head_position]) ELSE Panic

\* The step without the wrap: head_position + 1
increment_nowrap(head_position) == head_position + 1

\* ReadHead::next and WriteHead::increment, the step: (head_position + 1) % N
increment(head_position) == (head_position + 1) % N

\* ReadHead indexing from the start of the array, not from the cursor: i % N
ReadHead_index_absolute(head_position, i) ==
    {IF ~in_bounds(data, i % N) THEN Panic ELSE Ref(data, i % N)}

\* Index<usize> for ReadHead: &as_mut()[(self.head_position + i) % N]
ReadHead_index(head_position, i) ==
    {IF s.panic \/ ~in_bounds(data, s.value % N) THEN Panic
                                                  ELSE Ref(data, s.value % N)
        : s \in usize_add(head_position, i)}

\* ---------------------------------------------------------------- WriteHead
\* push storing after the step, in the slot that follows the write index.
push_store_after(head_position, element) ==
    IF in_bounds(data, increment(head_position))
    THEN [panic |-> FALSE,
          data |-> [data EXCEPT ![increment(head_position)] = element]]
    ELSE [panic |-> TRUE, data |-> data]

\* WriteHead::push, the store: buffer[self.head_position] = element
push_store(head_position, element) ==
    IF in_bounds(data, head_position)
    THEN [panic |-> FALSE, data |-> [data EXCEPT ![head_position] = element]]
    ELSE [panic |-> TRUE, data |-> data]

\* Index<usize> for WriteHead: &as_mut()[(self.head_position + i) % N]
WriteHead_index(head_position, i) ==
    {IF s.panic \/ ~in_bounds(data, s.value % N) THEN Panic
                                                  ELSE Ref(data, s.value % N)
        : s \in usize_add(head_position, i)}

\* IndexMut clamping an index past the end to slot 0 instead of wrapping it.
WriteHead_index_mut_clamp(head_position, i) == IF i >= N THEN 0 ELSE i

\* IndexMut<usize> for WriteHead, the slot referenced: i % N
WriteHead_index_mut(head_position, i) == i % N

\* ------------------------------------------------------------------ actions
\* let w = multitap.as_writehead();
AsWritehead(w) ==
    /\ Running
    /\ w \notin DOMAIN wh
    /\ wh' = [x \in (DOMAIN wh) \cup {w} |->
                IF x = w THEN as_writehead.head_position ELSE wh[x]]
    /\ op' = "as_writehead"
    /\ arg' = Args(w, 0, 0)
    /\ ret' = Handle("WriteHead", as_writehead.head_position)
    /\ UNCHANGED <<N, data, rh>>

\* drop(w)
DropWriteHead(w) ==
    /\ Running
    /\ w \in DOMAIN wh
    /\ wh' = drop_head(wh, w)
    /\ op' = "drop_writehead"
    /\ arg' = Args(w, 0, 0)
    /\ ret' = Unit
    /\ UNCHANGED <<N, data, rh>>

\* let r = multitap.as_readhead(head_position);
AsReadhead(r, head_position) ==
    /\ Running
    /\ r \notin DOMAIN rh
    /\ \E res \in as_readhead(head_position) :
        /\ rh' = IF res.panic THEN rh
                 ELSE [x \in (DOMAIN rh) \cup {r} |->
                        IF x = r THEN res.head_position ELSE rh[x]]
        /\ ret' = IF res.panic THEN Panic ELSE Handle("ReadHead", res.head_position)
    /\ op' = "as_readhead"
    /\ arg' = Args(r, head_position, 0)
    /\ UNCHANGED <<N, data, wh>>

\* drop(r)
DropReadHead(r) ==
    /\ Running
    /\ r \in DOMAIN rh
    /\ rh' = drop_head(rh, r)
    /\ op' = "drop_readhead"
    /\ arg' = Args(r, 0, 0)
    /\ ret' = Unit
    /\ UNCHANGED <<N, data, wh>>

\* r.seek(position)
Seek(r, position) ==
    /\ Running
    /\ r \in DOMAIN rh
    /\ rh' = [rh EXCEPT ![r] = seek(position)]
    /\ op' = "seek"
    /\ arg' = Args(r, position, 0)
    /\ ret' = Unit
    /\ UNCHANGED <<N, data, wh>>

\* next() advancing every outstanding ReadHead, as if the cursors shared one
\* position.
ReadNext_shared(r) ==
    /\ Running
    /\ r \in DOMAIN rh
    /\ ret' = next_sample(rh[r])
    /\ rh' = [x \in DOMAIN rh |-> increment(rh[x])]
    /\ op' = "next"
    /\ arg' = Args(r, 0, 0)
    /\ UNCHANGED <<N, data, wh>>

\* next() stepping the cursor before it reads, not after.
ReadNext_step_first(r) ==
    /\ Running
    /\ r \in DOMAIN rh
    /\ ret' = next_sample(increment(rh[r]))
    /\ rh' = [rh EXCEPT ![r] = increment(rh[r])]
    /\ op' = "next"
    /\ arg' = Args(r, 0, 0)
    /\ UNCHANGED <<N, data, wh>>

\* next() returning the element without stepping the cursor.
ReadNext_stay(r) ==
    /\ Running
    /\ r \in DOMAIN rh
    /\ ret' = next_sample(rh[r])
    /\ op' = "next"
    /\ arg' = Args(r, 0, 0)
    /\ UNCHANGED <<N, data, wh, rh>>

\* r.next()
ReadNext(r) ==
    /\ Running
    /\ r \in DOMAIN rh
    /\ ret' = next_sample(rh[r])
    /\ rh' = IF next_sample(rh[r]).kind = "panic" THEN rh
             ELSE [rh EXCEPT ![r] = increment(rh[r])]
    /\ op' = "next"
    /\ arg' = Args(r, 0, 0)
    /\ UNCHANGED <<N, data, wh>>

\* r[i]
ReadIndex(r, i) ==
    /\ Running
    /\ r \in DOMAIN rh
    /\ ret' \in ReadHead_index(rh[r], i)
    /\ op' = "readhead_index"
    /\ arg' = Args(r, i, 0)
    /\ UNCHANGED <<N, data, wh, rh>>

\* w.push(element)
Push(w, element) ==
    /\ Running
    /\ w \in DOMAIN wh
    /\ data' = push_store(wh[w], element).data
    /\ wh' = IF push_store(wh[w], element).panic THEN wh
             ELSE [wh EXCEPT ![w] = increment(wh[w])]
    /\ ret' = IF push_store(wh[w], element).panic THEN Panic ELSE Unit
    /\ op' = "push"
    /\ arg' = Args(w, 0, element)
    /\ UNCHANGED <<N, rh>>

\* w.increment()
Increment(w) ==
    /\ Running
    /\ w \in DOMAIN wh
    /\ wh' = [wh EXCEPT ![w] = increment(wh[w])]
    /\ op' = "increment"
    /\ arg' = Args(w, 0, 0)
    /\ ret' = Unit
    /\ UNCHANGED <<N, data, rh>>

\* w[i]
WriteIndex(w, i) ==
    /\ Running
    /\ w \in DOMAIN wh
    /\ ret' \in WriteHead_index(wh[w], i)
    /\ op' = "writehead_index"
    /\ arg' = Args(w, i, 0)
    /\ UNCHANGED <<N, data, wh, rh>>

\* w[i] = element
WriteIndexMut(w, i, element) ==
    /\ Running
    /\ w \in DOMAIN wh
    /\ LET slot == WriteHead_index_mut(wh[w], i) IN
        IF in_bounds(data, slot)
        THEN /\ data' = [data EXCEPT ![slot] = element]
             /\ ret' = [kind |-> "ref", slot |-> slot, value |-> element]
        ELSE /\ data' = data
             /\ ret' = Panic
    /\ op' = "writehead_index_mut"
    /\ arg' = Args(w, i, element)
    /\ UNCHANGED <<N, wh, rh>>

\* ----------------------------------------------------------- specification
\* After construction: a Multitap by new() or from a caller's array, and no
\* cursor yet.
InitHeap ==
    /\ N \in Capacities
    /\ data \in {new(N)} \cup {from_buffer(a) : a \in [0..(N - 1) -> Values]}
    /\ wh = << >>
    /\ rh = << >>
    /\ op = "new"
    /\ arg = Args(0, 0, 0)
    /\ ret = Unit

Init ==
    /\ InitHeap
    /\ pc = "free"
    /\ delay = 0
    /\ pushed = << >>
    /\ pulled = << >>
    /\ fill = << >>
    /\ touched = {}

\* Any caller: every operation, on any cursor, with any argument.
Next ==
    \/ \E w \in Writers : AsWritehead(w) /\ UNCHANGED scenario
    \/ \E w \in Writers : DropWriteHead(w) /\ UNCHANGED scenario
    \/ \E r \in Readers : \E head_position \in UsizeArgs :
            AsReadhead(r, head_position) /\ UNCHANGED scenario
    \/ \E r \in Readers : DropReadHead(r) /\ UNCHANGED scenario
    \/ \E r \in Readers : \E position \in UsizeArgs :
            Seek(r, position) /\ UNCHANGED scenario
    \/ \E r \in Readers : ReadNext(r) /\ UNCHANGED scenario
    \/ \E r \in Readers : \E i \in UsizeArgs : ReadIndex(r, i) /\ UNCHANGED scenario
    \/ \E w \in Writers : \E element \in Values :
            Push(w, element) /\ UNCHANGED scenario
    \/ \E w \in Writers : Increment(w) /\ UNCHANGED scenario
    \/ \E w \in Writers : \E i \in UsizeArgs : WriteIndex(w, i) /\ UNCHANGED scenario
    \/ \E w \in Writers : \E i \in UsizeArgs : \E element \in Values :
            WriteIndexMut(w, i, element) /\ UNCHANGED scenario

Spec == Init /\ [][Next]_vars

\* A caller that keeps to one WriteHead at a time and uses no ReadHead.
NextWrite ==
    \/ \E w \in Writers : DOMAIN wh = {} /\ AsWritehead(w) /\ UNCHANGED scenario
    \/ \E w \in Writers : DropWriteHead(w) /\ UNCHANGED scenario
    \/ \E w \in Writers : \E element \in Values :
            Push(w, element) /\ UNCHANGED scenario
    \/ \E w \in Writers : Increment(w) /\ UNCHANGED scenario
    \/ \E w \in Writers : \E i \in UsizeArgs : WriteIndex(w, i) /\ UNCHANGED scenario
    \/ \E w \in Writers : \E i \in UsizeArgs : \E element \in Values :
            WriteIndexMut(w, i, element) /\ UNCHANGED scenario

SpecWrite == Init /\ [][NextWrite]_vars

\* A caller that only reads: any number of ReadHeads over the initial contents.
NextRead ==
    \/ \E r \in Readers : \E head_position \in UsizeArgs :
            AsReadhead(r, head_position) /\ UNCHANGED scenario
    \/ \E r \in Readers : DropReadHead(r) /\ UNCHANGED scenario
    \/ \E r \in Readers : \E position \in UsizeArgs :
            Seek(r, position) /\ UNCHANGED scenario
    \/ \E r \in Readers : ReadNext(r) /\ UNCHANGED scenario
    \/ \E r \in Readers : \E i \in UsizeArgs : ReadIndex(r, i) /\ UNCHANGED scenario

SpecRead == Init /\ [][NextRead]_vars

\* One WriteHead that moves, and taps created (and dropped) at any moment with a
\* delay of at most the capacity.
NextTap ==
    \/ DOMAIN wh = {} /\ AsWritehead(1) /\ UNCHANGED scenario
    \/ \E element \in Values : Push(1, element) /\ UNCHANGED scenario
    \/ Increment(1) /\ UNCHANGED scenario
    \/ \E head_position \in 0..N : AsReadhead(1, head_position) /\ UNCHANGED scenario
    \/ DropReadHead(1) /\ UNCHANGED scenario

SpecTap == Init /\ [][NextTap]_vars

\* One WriteHead and one ReadHead, every operation of both in any order.
NextPair ==
    \/ DOMAIN wh = {} /\ AsWritehead(1) /\ UNCHANGED scenario
    \/ DropWriteHead(1) /\ UNCHANGED scenario
    \/ \E element \in Values : Push(1, element) /\ UNCHANGED scenario
    \/ Increment(1) /\ UNCHANGED scenario
    \/ \E i \in UsizeArgs : WriteIndex(1, i) /\ UNCHANGED scenario
    \/ \E i \in UsizeArgs : \E element \in Values :
            WriteIndexMut(1, i, element) /\ UNCHANGED scenario
    \/ \E head_position \in UsizeArgs : AsReadhead(1, head_position) /\ UNCHANGED scenario
    \/ DropReadHead(1) /\ UNCHANGED scenario
    \/ \E position \in UsizeArgs : Seek(1, position) /\ UNCHANGED scenario
    \/ ReadNext(1) /\ UNCHANGED scenario
    \/ \E i \in UsizeArgs : ReadIndex(1, i) /\ UNCHANGED scenario

SpecPair == Init /\ [][NextPair]_vars

\* The stream scenario: any initial contents, one ReadHead of delay d <= N, and
\* nothing but next() on it, with neither a write nor a seek in between.
InitStream ==
    /\ N \in Capacities
    /\ data \in {new(N)} \cup {from_buffer(a) : a \in [0..(N - 1) -> Values]}
    /\ wh = << >>
    /\ delay \in 0..N
    /\ \E res \in as_readhead(delay) : ~res.panic /\ rh = (1 :> res.head_position)
    /\ op = "as_readhead"
    /\ arg = Args(1, delay, 0)
    /\ ret = Handle("ReadHead", rh[1])
    /\ pc = "pull"
    /\ pushed = << >>
    /\ pulled = << >>
    /\ fill = << >>
    /\ touched = {}

StreamPull ==
    /\ pc = "pull"
    /\ Len(pulled) < MaxTicks
    /\ ReadNext(1)
    /\ pulled' = Append(pulled, ret'.value)
    /\ UNCHANGED <<pc, delay, pushed, fill, touched>>

SpecStream == InitStream /\ [][StreamPull]_vars

\* The fill scenario: a Multitap by new() or from a caller's array, one
\* WriteHead on it, and a ledger of the initial contents and of the slots the
\* WriteHead's pushes and indexed writes stored into.
InitFill ==
    /\ N \in Capacities
    /\ \/ /\ op = "new"
          /\ fill = [i \in 0..(N - 1) |-> 0]
          /\ data = new(N)
       \/ /\ op = "from_buffer"
          /\ fill \in [0..(N - 1) -> Values]
          /\ data = from_buffer(fill)
    /\ wh = (1 :> as_writehead.head_position)
    /\ rh = << >>
    /\ arg = Args(0, N, 0)
    /\ ret = Handle("Multitap", 0)
    /\ touched = {}
    /\ pc = "free"
    /\ delay = 0
    /\ pushed = << >>
    /\ pulled = << >>

FillPush(element) ==
    /\ Push(1, element)
    /\ touched' = IF ret'.kind = "unit" THEN touched \cup {wh[1]} ELSE touched
    /\ UNCHANGED <<pc, delay, pushed, pulled, fill>>

FillIncrement ==
    /\ Increment(1)
    /\ UNCHANGED scenario

FillIndexMut(i, element) ==
    /\ WriteIndexMut(1, i, element)
    /\ touched' = IF ret'.kind = "ref" THEN touched \cup {ret'.slot} ELSE touched
    /\ UNCHANGED <<pc, delay, pushed, pulled, fill>>

NextFill ==
    \/ \E element \in Values : FillPush(element)
    \/ FillIncrement
    \/ \E i \in UsizeArgs : \E element \in Values : FillIndexMut(i, element)

SpecFill == InitFill /\ [][NextFill]_vars

\* Construction: the caller picks the capacity, zero included, then calls one
\* constructor; on the Multitap it gets it takes WriteHeads and pushes.
Slices == UNION {[0..(len - 1) -> Values] : len \in 0..(MaxN + 1)}

InitConstruct ==
    /\ N \in 0..MaxN
    /\ data = << >>
    /\ wh = << >>
    /\ rh = << >>
    /\ op = "start"
    /\ arg = Args(0, 0, 0)
    /\ ret = Unit
    /\ pc = "free"
    /\ delay = 0
    /\ pushed = << >>
    /\ pulled = << >>
    /\ fill = << >>
    /\ touched = {}

\* let multitap = Multitap::<T, N>::new();
ConstructNew ==
    /\ op = "start"
    /\ data' = new(N)
    /\ op' = "new"
    /\ arg' = Args(0, N, 0)
    /\ ret' = Handle("Multitap", 0)
    /\ UNCHANGED <<N, wh, rh>>

\* let multitap = Multitap::<T, N>::from_buffer(array);  (or array.into())
ConstructFromBuffer(array) ==
    /\ op = "start"
    /\ data' = from_buffer(array)
    /\ op' = "from_buffer"
    /\ arg' = Args(0, Cardinality(DOMAIN array), 0)
    /\ ret' = Handle("Multitap", 0)
    /\ UNCHANGED <<N, wh, rh>>

\* let multitap = Multitap::<T, N>::from_slice(slice);
ConstructFromSlice(slice) ==
    /\ op = "start"
    /\ data' = from_slice(slice).data
    /\ op' = "from_slice"
    /\ arg' = Args(0, Cardinality(DOMAIN slice), 0)
    /\ ret' = IF from_slice(slice).panic THEN Panic ELSE Handle("Multitap", 0)
    /\ UNCHANGED <<N, wh, rh>>

NextConstruct ==
    \/ ConstructNew /\ UNCHANGED scenario
    \/ \E array \in [0..(N - 1) -> Values] :
            ConstructFromBuffer(array) /\ UNCHANGED scenario
    \/ \E slice \in Slices : ConstructFromSlice(slice) /\ UNCHANGED scenario
    \/ \E w \in Writers : op # "start" /\ AsWritehead(w) /\ UNCHANGED scenario
    \/ \E w \in Writers : \E element \in Values :
            Push(w, element) /\ UNCHANGED scenario

SpecConstruct == InitConstruct /\ [][NextConstruct]_vars

\* The lock-step scenario: a zero-filled buffer, the WriteHead and one ReadHead
\* of delay d < N created before the first push, then every tick one push
\* followed by one next().
InitLockstep ==
    /\ N \in Capacities
    /\ data = new(N)
    /\ wh = (1 :> as_writehead.head_position)
    /\ delay \in 0..(N - 1)
    /\ \E res \in as_readhead(delay) : ~res.panic /\ rh = (1 :> res.head_position)
    /\ op = "as_readhead"
    /\ arg = Args(1, delay, 0)
    /\ ret = Handle("ReadHead", rh[1])
    /\ pc = "push"
    /\ pushed = << >>
    /\ pulled = << >>
    /\ fill = << >>
    /\ touched = {}

TickPush(element) ==
    /\ pc = "push"
    /\ Len(pushed) < MaxTicks
    /\ Push(1, element)
    /\ pushed' = Append(pushed, element)
    /\ pc' = "pull"
    /\ UNCHANGED <<delay, pulled, fill, touched>>

TickPull ==
    /\ pc = "pull"
    /\ ReadNext(1)
    /\ pulled' = Append(pulled, ret'.value)
    /\ pc' = "push"
    /\ UNCHANGED <<delay, pushed, fill, touched>>

NextLockstep ==
    \/ \E element \in Values : TickPush(element)
    \/ TickPull

SpecLockstep == InitLockstep /\ [][NextLockstep]_vars

\* The same-rate scenario: as the lock-step one, but the WriteHead's half of a
\* tick is a push or an increment.
TickAdvance ==
    /\ pc = "push"
    /\ Increment(1)
    /\ pc' = "pull"
    /\ UNCHANGED <<delay, pushed, pulled, fill, touched>>

NextPhase ==
    \/ \E element \in Values : Len(pulled) < MaxTicks /\ TickPush(element)
    \/ Len(pulled) < MaxTicks /\ TickAdvance
    \/ TickPull

SpecPhase == InitLockstep /\ [][NextPhase]_vars

\* ------------------------------------------------------------------- claims
Max(S) == CHOOSE x \in S : \A y \in S : y <= x

\* C1 (SpecLockstep): with the WriteHead at index 0 and a ReadHead of delay
\* d < N created before the first push, and every tick one push followed by one
\* next(), pull number t >= d (counted from 0) returns the value of push
\* number t - d.
C1_DelayCorrectness ==
    \A t \in 0..(Len(pulled) - 1) :
        t >= delay => pulled[t + 1] = pushed[(t - delay) + 1]

\* C1 witness: a tap of non-zero delay has been pulled past the wrap of both
\* cursors, and what it returned differs from what was pushed in that tick.
C1_Witness ==
    /\ N >= 2
    /\ delay >= 1
    /\ pc = "push"
    /\ Len(pulled) >= N + delay
    /\ pulled[Len(pulled)] # pushed[Len(pushed)]

\* C2 (Spec): at most one WriteHead of the buffer is outstanding, and a call of
\* as_writehead never hands out a cursor next to an outstanding one.
C2_SingleWriterExclusivity ==
    /\ Cardinality(DOMAIN wh) <= 1
    /\ (op = "as_writehead" /\ ret.kind = "WriteHead") => DOMAIN wh = {arg.head}

\* C3 (SpecWrite): once the outstanding WriteHead is dropped no WriteHead is
\* outstanding and as_writehead can be called again; and every as_writehead
\* of a caller holding none, the first as the repeated ones, returns a
\* WriteHead at index 0.
C3_WriterSlotRelease ==
    /\ op = "drop_writehead" =>
        /\ ret.kind = "unit"
        /\ DOMAIN wh = {}
        /\ \A w \in Writers : ENABLED (DOMAIN wh = {} /\ AsWritehead(w))
    /\ op = "as_writehead" =>
        /\ ret.kind = "WriteHead"
        /\ DOMAIN wh = {arg.head}
        /\ wh[arg.head] = 0

\* C3 witness: the WriteHead has been dropped, none is left, and the handle it
\* was held in can take the WriteHead of a new as_writehead call.
C3_Witness ==
    /\ op = "drop_writehead"
    /\ DOMAIN wh = {}
    /\ ENABLED (DOMAIN wh = {} /\ AsWritehead(arg.head))

\* C4 (Spec): as_readhead(delay) succeeds for every delay and returns a
\* ReadHead at index (N - (delay mod N)) mod N.
C4_ReadCursorTotal ==
    op = "as_readhead" =>
        /\ ret.kind = "ReadHead"
        /\ arg.head \in DOMAIN rh
        /\ rh[arg.head] = (N - (arg.n % N)) % N

\* C5 as claimed (SpecTap): a ReadHead created with delay d trails the WriteHead's
\* index w at that moment by d: (w - r) mod N = d mod N.
C5_TrailsWriter ==
    (op = "as_readhead" /\ ret.kind = "ReadHead") =>
        \A w \in DOMAIN wh :
            ((wh[w] + N) - rh[arg.head]) % N = arg.n % N

\* C5 as amended (SpecTap): a ReadHead created with delay d <= N is at index
\* (N - d) mod N whatever the WriteHead's index w is: it trails index 0, where
\* every WriteHead starts, by d, and trails w by d exactly when w = 0.
C5_TrailsWriterStart ==
    (op = "as_readhead" /\ arg.n <= N) =>
        /\ ret.kind = "ReadHead"
        /\ arg.head \in DOMAIN rh
        /\ rh[arg.head] = (N - arg.n) % N
        /\ ((0 + N) - rh[arg.head]) % N = arg.n % N
        /\ \A w \in DOMAIN wh :
            (((wh[w] + N) - rh[arg.head]) % N = arg.n % N) <=> (wh[w] = 0)

\* C5 witness: a tap of non-zero delay is created while the WriteHead is away
\* from index 0.
C5_Witness ==
    /\ op = "as_readhead"
    /\ ret.kind = "ReadHead"
    /\ arg.n >= 1
    /\ arg.n < N
    /\ 1 \in DOMAIN wh
    /\ wh[1] # 0

\* C6 (SpecWrite): writehead[i] = v on a WriteHead at index w stores v in slot
\* (w + i) mod N, changes no other slot and leaves w unchanged.
C6_IndexMutRelative ==
    [][op' = "writehead_index_mut" =>
        /\ ret'.kind = "ref"
        /\ wh' = wh
        /\ data' = [data EXCEPT ![(wh[arg'.head] + arg'.n) % N] = arg'.element]
      ]_vars

\* C7 (SpecWrite): writehead[i] = v stores v in the slot writehead[i + N] refers
\* to, for every i with i + N a usize; a write at i + N that follows a write at
\* i overwrites the slot that one wrote and changes no other.
C7_IndexMutCyclic ==
    /\ [](op = "writehead_index_mut" =>
            /\ ret.kind = "ref"
            /\ data[ret.slot] = arg.element
            /\ arg.n + N <= UsizeMax =>
                    ret.slot = WriteHead_index_mut(wh[arg.head], arg.n + N)
            /\ arg.n >= N =>
                    ret.slot = WriteHead_index_mut(wh[arg.head], arg.n - N))
    /\ [][(/\ op = "writehead_index_mut"
           /\ op' = "writehead_index_mut"
           /\ arg'.head = arg.head
           /\ arg'.n = arg.n + N) =>
            /\ ret'.slot = ret.slot
            /\ data' = [data EXCEPT ![ret.slot] = arg'.element]
         ]_vars

\* C7 witness: an indexed write at an index of at least N landed in a slot
\* other than slot 0, N below its index.
C7_Witness ==
    /\ op = "writehead_index_mut"
    /\ ret.kind = "ref"
    /\ arg.n > N
    /\ arg.n < 2 * N
    /\ ret.slot = arg.n - N
    /\ data[ret.slot] = arg.element
    /\ data[0] # arg.element

\* C8 (SpecPair): readhead[i] on a ReadHead at index r, for every i with r + i a
\* usize, refers to slot (r + i) mod N and its content, as readhead[i mod N]
\* does, and changes neither the cursors nor the buffer.
C8_ReadIndexPeek ==
    [][(/\ op' = "readhead_index"
        /\ rh[arg'.head] + arg'.n <= UsizeMax) =>
            /\ ret'.kind = "ref"
            /\ ret'.slot = (rh[arg'.head] + arg'.n) % N
            /\ ret'.value = data[(rh[arg'.head] + arg'.n) % N]
            /\ ReadHead_index(rh[arg'.head], arg'.n % N) = {ret'}
            /\ rh' = rh
            /\ wh' = wh
            /\ data' = data
      ]_vars

\* C8 witness: a peek at an index of at least N through a ReadHead away from
\* index 0 wrapped to a slot below the cursor.
C8_Witness ==
    /\ op = "readhead_index"
    /\ ret.kind = "ref"
    /\ arg.n >= N
    /\ arg.n < UsizeMax
    /\ rh[arg.head] > 0
    /\ ret.slot < rh[arg.head]
    /\ data[ret.slot] # data[rh[arg.head]]

\* C9 (SpecPair): seek(p) leaves the ReadHead at index p mod N, wherever it was
\* and wherever the WriteHead is; the next() that follows returns the content
\* of slot p mod N, which is what it returns after seek(p mod N).
C9_SeekCyclic ==
    op = "seek" =>
        /\ ret.kind = "unit"
        /\ rh[arg.head] = arg.n % N
        /\ rh[arg.head] = seek(arg.n % N)
        /\ next_sample(rh[arg.head]) = Sample(data[arg.n % N])
        /\ next_sample(rh[arg.head]) = next_sample(seek(arg.n % N))

\* C9 witness: a seek to a position of at least N, with the WriteHead away from
\* index 0, left the ReadHead at a non-zero index.
C9_Witness ==
    /\ op = "seek"
    /\ arg.n > N
    /\ rh[arg.head] = arg.n - N
    /\ rh[arg.head] # 0
    /\ 1 \in DOMAIN wh
    /\ wh[1] # 0
    /\ wh[1] # rh[arg.head]

\* C10 (SpecLockstep): push(v) on a WriteHead at index w stores v in slot w,
\* changes no other slot and moves the WriteHead to (w + 1) mod N; so after k
\* pushes from index 0 every slot j that was pushed to holds the latest pushed
\* value whose number is congruent to j mod N.
C10_PushCircular ==
    /\ [][op' = "push" =>
            /\ ret'.kind = "unit"
            /\ data' = [data EXCEPT ![wh[arg'.head]] = arg'.element]
            /\ wh' = [wh EXCEPT ![arg'.head] = (wh[arg'.head] + 1) % N]
         ]_vars
    /\ [](\A j \in 0..(N - 1) :
            LET ks == {k \in 1..Len(pushed) : (k - 1) % N = j}
            IN  ks # {} => data[j] = pushed[Max(ks)])

\* C10 witness: the push after the N-th one overwrote slot 0 with another value.
C10_Witness ==
    /\ N >= 2
    /\ op = "push"
    /\ Len(pushed) = N + 1
    /\ wh[1] = 1
    /\ data[0] = pushed[N + 1]
    /\ data[0] # pushed[1]

\* C11 (SpecRead): with several ReadHeads on one buffer and no write, next(),
\* seek() and indexing on one ReadHead leave every other cursor and the buffer
\* as they were, and what the call returns and where it leaves its own ReadHead
\* follow from that ReadHead's index, the argument and the buffer alone.
C11_ReaderIndependence ==
    [][op' \in {"next", "seek", "readhead_index"} =>
        /\ DOMAIN rh' = DOMAIN rh
        /\ \A x \in (DOMAIN rh) \ {arg'.head} : rh'[x] = rh[x]
        /\ wh' = wh
        /\ data' = data
        /\ op' = "next" =>
            /\ ret' = Sample(data[rh[arg'.head]])
            /\ rh'[arg'.head] = (rh[arg'.head] + 1) % N
        /\ op' = "seek" =>
            /\ ret' = Unit
            /\ rh'[arg'.head] = arg'.n % N
        /\ (op' = "readhead_index" /\ rh[arg'.head] + arg'.n <= UsizeMax) =>
            /\ ret' = Ref(data, (rh[arg'.head] + arg'.n) % N)
            /\ rh'[arg'.head] = rh[arg'.head]
      ]_vars

\* C11 witness: next() was called on one of two ReadHeads that stand at
\* different indices, the other one away from index 0.
C11_Witness ==
    /\ op = "next"
    /\ ret.kind = "Some"
    /\ Cardinality(DOMAIN rh) >= 2
    /\ \E x \in (DOMAIN rh) \ {arg.head} : rh[x] # 0 /\ rh[x] # rh[arg.head]

\* C12 (SpecConstruct): constructing with capacity 0 fails with InvalidCapacity
\* and constructing from a source of another length than the capacity fails
\* with SizeMismatch, each returned as an error value, and no buffer a cursor
\* can be taken from exists afterwards.
C12_ConstructionErrors ==
    /\ (N = 0 /\ op \in {"new", "from_buffer", "from_slice"}) =>
            ret.kind = "InvalidCapacity"
    /\ (op = "from_slice" /\ arg.n # N) => ret.kind = "SizeMismatch"
    /\ N = 0 => DOMAIN wh = {}

\* C13 (SpecPair): whatever the calls and their arguments, every WriteHead and
\* ReadHead index is in 0..N-1 and every access to the array is at an index in
\* 0..N-1: a reference handed out refers to a slot of the array, and no call
\* panics on the array's bounds check (the only panics are usize overflows).
C13_BoundsSafety ==
    /\ \A w \in DOMAIN wh : wh[w] \in 0..(N - 1)
    /\ \A r \in DOMAIN rh : rh[r] \in 0..(N - 1)
    /\ ret.kind = "ref" => ret.slot \in 0..(N - 1)
    /\ ret.kind = "panic" =>
        \/ op = "as_readhead" /\ arg.n > N
        \/ op = "readhead_index" /\ rh[arg.head] + arg.n > UsizeMax
        \/ op = "writehead_index" /\ wh[arg.head] + arg.n > UsizeMax

\* C13 witness: with the WriteHead on the last slot, an indexed read at the
\* largest usize through a ReadHead away from index 0 returned a reference.
C13_Witness ==
    /\ N >= 2
    /\ op = "readhead_index"
    /\ arg.n = UsizeMax
    /\ rh[arg.head] >= 1
    /\ ret.kind = "ref"
    /\ 1 \in DOMAIN wh
    /\ wh[1] = N - 1

\* C14 (SpecPair): cursor[i] on a ReadHead or WriteHead at index k succeeds for
\* every usize i, also when k + i is past the largest usize, and refers to slot
\* (k + i) mod N, the sum taken in the integers.
C14_IndexTotal ==
    op \in {"readhead_index", "writehead_index"} =>
        LET k == IF op = "readhead_index" THEN rh[arg.head] ELSE wh[arg.head]
        IN  /\ ret.kind = "ref"
            /\ ret.slot = (k + arg.n) % N
            /\ ret.value = data[(k + arg.n) % N]

\* C15 (SpecStream): every next() returns Some of the content of the slot at the
\* read index, steps the index by one modulo N and leaves the buffer as it was;
\* with nothing but next() calls the index is back at its start after every N
\* calls, and call j + N returns what call j returned.
C15_NextCyclicStream ==
    /\ [][op' = "next" =>
            /\ ret' = Sample(data[rh[arg'.head]])
            /\ rh' = [rh EXCEPT ![arg'.head] = (rh[arg'.head] + 1) % N]
            /\ data' = data
         ]_vars
    /\ [](Len(pulled) % N = 0 => rh[1] = (N - delay) % N)
    /\ [](\A j \in 1..Len(pulled) :
            j + N <= Len(pulled) => pulled[j + N] = pulled[j])

\* C15 witness: a ReadHead that started away from index 0 has been pulled twice
\* round a buffer whose slots differ.
C15_Witness ==
    /\ N >= 2
    /\ op = "next"
    /\ Len(pulled) = 2 * N
    /\ rh[1] # 0
    /\ pulled[1] # pulled[2]
    /\ pulled[N + 1] = pulled[1]

\* C16 (SpecPhase): when every tick is one push or increment of the WriteHead
\* and one next() of the ReadHead, the distance (write index - read index) mod N
\* is after every tick what it was before the first one.
C16_PhasePreserved ==
    pc = "push" => ((wh[1] + N) - rh[1]) % N = delay % N

\* C16 witness: after more than N ticks, pushes and increments among them, the
\* WriteHead has wrapped below a ReadHead of non-zero delay.
C16_Witness ==
    /\ pc = "push"
    /\ delay >= 1
    /\ Len(pulled) > N
    /\ Len(pushed) >= 1
    /\ Len(pushed) < Len(pulled)
    /\ wh[1] < rh[1]

\* C17 (SpecFill): a Multitap built by new() holds the zero value in every slot
\* and one built from an array holds the array's elements in order; after any
\* pushes, increments and indexed writes every slot none of them stored into
\* still holds its initial value.
C17_InitialFillPreserved ==
    /\ op = "new" => \A j \in 0..(N - 1) : data[j] = 0
    /\ DOMAIN data = 0..(N - 1)
    /\ \A j \in (0..(N - 1)) \ touched : data[j] = fill[j]

\* C17 witness: on a buffer built from an array that is not all zero, writes
\* have changed a slot and left another one, of non-zero initial value, alone.
C17_Witness ==
    /\ op \in {"push", "writehead_index_mut"}
    /\ \E j \in touched : data[j] # fill[j]
    /\ \E j \in (0..(N - 1)) \ touched : fill[j] # 0 /\ data[j] = fill[j]
    /\ wh[1] # 0

\* C18 (SpecWrite): after writehead[i] = v, reading writehead[i] returns v, for
\* every index the WriteHead can be at, every i and every v; and
\* writehead[0] = v leaves the buffer as push(v) would (the increment that
\* follows changes no slot).
C18_IndexMutReadBack ==
    /\ [](op = "writehead_index_mut" =>
            \A res \in WriteHead_index(wh[arg.head], arg.n) :
                res.kind = "ref" /\ res.value = arg.element)
    /\ [][(op' = "writehead_index_mut" /\ arg'.n = 0) =>
            data' = push_store(wh[arg'.head], arg'.element).data
         ]_vars

====
